---- MODULE Spec2Model ----
(***************************************************************************)
(* Wallet transfer and ledger engine of ovii_backend.                      *)
(*                                                                         *)
(* Money is counted in half cents so that a percentage charge that is not  *)
(* a whole number of cents (calculate_charge does not quantize) can be     *)
(* represented; every value stored in a DecimalField(decimal_places=2) is  *)
(* a whole number of cents, i.e. a multiple of Cent.                       *)
(*                                                                         *)
(* Each worker runs one request at a time.  The database is a single      *)
(* relational store in READ COMMITTED mode: a read sees the committed      *)
(* rows, SELECT ... FOR UPDATE takes a row lock that is held until the     *)
(* enclosing atomic block commits or rolls back.                           *)
(***************************************************************************)
EXTENDS Integers, Sequences, FiniteSets, TLC

\* ---------------------------------------------------------------- bounds
NumProcs == 2
MaxTx == 2
MaxTime == 2
NumRefBodies == 2
LimitLevel1 == 3
LimitLevel2 == 4
MaxConfigs == 2

\* ------------------------------------------------------- program constants
Cent == 2
DayTicks == 1
max_attempts == 5
max_retries == 3

Procs == 1..NumProcs
Wallets == {1, 2, 3}
NoProc == 0

\* The users owning the wallets: KYC tier and role are fixed while the engine runs.
verification_level == (1 :> 2) @@ (2 :> 1) @@ (3 :> 0)
role == (1 :> "CUSTOMER") @@ (2 :> "AGENT") @@ (3 :> "CUSTOMER")
InitBalance == (1 :> 6 * Cent) @@ (2 :> 3 * Cent) @@ (3 :> 0)

\* settings.TRANSACTION_LIMITS: level 0 is absent from the table.
TRANSACTION_LIMITS == (1 :> LimitLevel1 * Cent) @@ (2 :> LimitLevel2 * Cent)

TransactionType == {"TRANSFER", "DEPOSIT", "WITHDRAWAL", "PAYMENT", "COMMISSION"}
Status == {"PENDING", "COMPLETED", "FAILED"}
RoundingModes == {"HALF_EVEN", "HALF_UP"}

None == [name |-> "None"]

\* The TransactionCharge table (administrative data, read-only for the engine).
\* value is a percentage for PERCENTAGE rules and an amount for FIXED rules.
TransactionChargeRows ==
  { [name |-> "transfer_customer", charge_type |-> "PERCENTAGE", value |-> 50,
     applies_to |-> "SENDER", min_charge |-> 0, max_charge |-> 1 * Cent, is_active |-> TRUE],
    [name |-> "payment_customer", charge_type |-> "FIXED", value |-> 2 * Cent,
     applies_to |-> "RECEIVER", min_charge |-> 0, max_charge |-> -1, is_active |-> TRUE],
    [name |-> "transfer_agent", charge_type |-> "PERCENTAGE", value |-> 50,
     applies_to |-> "RECEIVER", min_charge |-> 1 * Cent, max_charge |-> -1, is_active |-> TRUE],
    [name |-> "withdrawal_customer", charge_type |-> "FIXED", value |-> 1 * Cent,
     applies_to |-> "SENDER", min_charge |-> 0, max_charge |-> -1, is_active |-> FALSE] }

VARIABLES
  balance,      \* wallet.balance of every Wallet row (committed)
  feeBalance,   \* balance of the SystemWallet "Fee Wallet" (committed)
  txs,          \* the Transaction table, in insertion order (id = index)
  lockOwner,    \* row lock of every wallet: the worker whose atomic block holds it
  now,          \* timezone.now(), in days
  rounding,     \* how the database backend rounds a Decimal to 2 places
  pc,           \* position of every worker
  arg,          \* arguments of the running call
  passedBal,    \* balance of the sender_wallet object handed to the call
  feeRead,      \* fee_wallet.balance as read by get_or_create
  charge,       \* the TransactionCharge found, or None
  chargeAmt,    \* charge_amount
  sBal,         \* sender_wallet_locked.balance as read under the lock
  rBal,         \* receiver_wallet_locked.balance as read under the lock
  ref,          \* self.transaction_reference of the row being saved
  returned,     \* what the step just taken returned to its caller, if it returned
  sent,         \* what the step just taken dispatched and committed, in program order
  faulty,       \* the signal receivers whose call raises
  held,         \* the Transaction object a webhook request fetched, and the status it reports
  referral,     \* the Referral table, by id
  referralLock, \* row lock of every referral: the worker whose atomic block holds it
  configs,      \* is_active of every WhatsAppConfig row, in insertion order (pk = index)
  saving,       \* the WhatsAppConfig object a worker has validated and is about to write
  phone,        \* user.phone_number of every wallet's owner
  task,         \* the task or view a worker runs around create_transaction, and its locals
  ledger        \* history: per wallet, sum of the balance changes committed calls made

vars == <<balance, feeBalance, txs, lockOwner, now, rounding, pc, arg, passedBal,
          feeRead, charge, chargeAmt, sBal, rBal, ref, returned, sent, faulty, held,
          referral, referralLock, configs, saving, phone, task, ledger>>

\* What create_transaction and the admin top-up never write.
referralVars == <<referral, referralLock>>
configVars == <<configs, saving>>
env == <<rounding, faulty, held, referralVars, configVars, phone, task>>

dbVars == <<balance, feeBalance, txs>>
localVars == <<arg, passedBal, feeRead, charge, chargeAmt, sBal, rBal, ref>>

\* ---------------------------------------------------------- phone numbers
\* The phone number of wallet w's owner: the one registered with, or the one
\* an administrator changed it to.
NoPhone == 0
InitPhone == [w \in Wallets |-> 10 * w]
ChangedPhone(w) == 10 * w + 1

NoArg == [s |-> 0, r |-> 0, amount |-> 0, type |-> "TRANSFER"]
NoRef == [prefix |-> "", body |-> -1]
NoReturn == [p |-> NoProc, value |-> "none"]
NoTask == [stage |-> "none", user |-> 0, payout |-> 0, amount |-> 0, retries |-> 0,
           paid |-> FALSE, start |-> 0, id |-> 0]
NoHeld == [id |-> 0, paid |-> FALSE, phone_number |-> 0]
Return(p, v) == [p |-> p, value |-> v]

Min(a, b) == IF a < b THEN a ELSE b
Max(a, b) == IF a > b THEN a ELSE b

\* -------------------------------------------------------------- rounding
\* A Decimal is rounded to 2 places when it is written to a DecimalField:
\* ROUND_HALF_EVEN by django.db.backends.utils.format_number, half away from
\* zero by a numeric(12,2) column when the backend passes the value through.
Quantize(x, mode) ==
  IF x % Cent = 0 THEN x
  ELSE IF mode = "HALF_EVEN"
       THEN (IF x % (2 * Cent) = 1 THEN x - 1 ELSE x + 1)
       ELSE (IF x > 0 THEN x + 1 ELSE x - 1)

\* ------------------------------------------------------- charge resolver
ChargeName(transaction_type, user_role) ==
  CASE transaction_type = "TRANSFER" /\ user_role = "CUSTOMER" -> "transfer_customer"
    [] transaction_type = "TRANSFER" /\ user_role = "AGENT" -> "transfer_agent"
    [] transaction_type = "PAYMENT" /\ user_role = "CUSTOMER" -> "payment_customer"
    [] transaction_type = "PAYMENT" /\ user_role = "AGENT" -> "payment_agent"
    [] transaction_type = "WITHDRAWAL" /\ user_role = "CUSTOMER" -> "withdrawal_customer"
    [] transaction_type = "WITHDRAWAL" /\ user_role = "AGENT" -> "withdrawal_agent"
    [] transaction_type = "DEPOSIT" /\ user_role = "CUSTOMER" -> "deposit_customer"
    [] transaction_type = "DEPOSIT" /\ user_role = "AGENT" -> "deposit_agent"
    [] OTHER -> "none"

get_transaction_charge(transaction_type, user_role, amount) ==
  LET charge_name == ChargeName(transaction_type, user_role)
      found == {c \in TransactionChargeRows : c.name = charge_name /\ c.is_active}
  IN IF found = {} THEN None ELSE CHOOSE c \in found : TRUE

\* Mutant: the max_charge clamp of lines 71-72 is missing.
calculate_charge_NoMaxClamp(rule, amount) ==
  LET c0 == IF rule.charge_type = "PERCENTAGE"
            THEN (rule.value * amount) \div 100
            ELSE rule.value
  IN Max(c0, rule.min_charge)

calculate_charge(rule, amount) ==
  LET c0 == IF rule.charge_type = "PERCENTAGE"
            THEN (rule.value * amount) \div 100
            ELSE rule.value
      c1 == IF rule.max_charge # -1 THEN Min(c0, rule.max_charge) ELSE c0
  IN Max(c1, rule.min_charge)

\* --------------------------------------------------------- limit enforcer
daily_limit(w) ==
  IF verification_level[w] \in DOMAIN TRANSACTION_LIMITS
  THEN TRANSACTION_LIMITS[verification_level[w]] ELSE 0

\* The filter of lines 90-92 on one row of sender_wallet.transactions.
CountedToday(row, w, today_start) ==
  row.wallet = w /\ row.timestamp >= today_start /\ row.status = "COMPLETED"

\* Sum("amount") over the filtered rows, or 0.
RECURSIVE SumAmounts(_, _, _)
SumAmounts(rows, w, today_start) ==
  IF rows = <<>> THEN 0
  ELSE (IF CountedToday(Head(rows), w, today_start) THEN Head(rows).amount ELSE 0)
       + SumAmounts(Tail(rows), w, today_start)

amount_sent_today(rows, w, t) == SumAmounts(rows, w, t - DayTicks)

\* ---------------------------------------------------- reference generator
prefix_map(transaction_type) ==
  CASE transaction_type = "TRANSFER" -> "TR"
    [] transaction_type = "WITHDRAWAL" -> "CO"
    [] transaction_type = "PAYMENT" -> "MP"
    [] transaction_type = "DEPOSIT" -> "DP"
    [] transaction_type = "COMMISSION" -> "CM"
    [] OTHER -> "TR"

\* uuid.uuid4().hex[:8].upper(): one of the 8-hex-digit strings, named by its value.
\* (one more string for every worker beyond NumProcs).
HexBodies == 0..(NumRefBodies - 1 + (Cardinality(DOMAIN pc) - NumProcs))

_generate_transaction_reference(transaction_type) ==
  {[prefix |-> prefix_map(transaction_type), body |-> b] : b \in HexBodies}

ReferenceExists(rows, reference) ==
  \E i \in 1..Len(rows) : rows[i].transaction_reference = reference

\* The references Transaction.save can end its loop with, given the rows it sees.
RECURSIVE ReferenceLoop(_, _, _, _)
ReferenceLoop(rows, transaction_type, reference, attempts) ==
  IF ~ReferenceExists(rows, reference) THEN {reference}
  ELSE IF attempts >= max_attempts THEN {reference}
  ELSE UNION {ReferenceLoop(rows, transaction_type, g, attempts + 1) :
                g \in _generate_transaction_reference(transaction_type)}

SaveReferences(rows, transaction_type) ==
  UNION {ReferenceLoop(rows, transaction_type, g, 0) :
           g \in _generate_transaction_reference(transaction_type)}

\* Mutant: the loop gives up one regeneration later.
RECURSIVE ReferenceLoopCount_OneMore(_, _, _, _)
ReferenceLoopCount_OneMore(rows, transaction_type, reference, attempts) ==
  IF ~ReferenceExists(rows, reference)
  THEN {[reference |-> reference, attempts |-> attempts]}
  ELSE IF attempts > max_attempts
  THEN {[reference |-> reference, attempts |-> attempts]}
  ELSE UNION {ReferenceLoopCount_OneMore(rows, transaction_type, g, attempts + 1) :
                g \in _generate_transaction_reference(transaction_type)}

\* The loop of lines 250-261 with its counter: the reference it ends with and
\* how many times it regenerated.
RECURSIVE ReferenceLoopCount(_, _, _, _)
ReferenceLoopCount(rows, transaction_type, reference, attempts) ==
  IF ~ReferenceExists(rows, reference)
  THEN {[reference |-> reference, attempts |-> attempts]}
  ELSE IF attempts >= max_attempts
  THEN {[reference |-> reference, attempts |-> attempts]}
  ELSE UNION {ReferenceLoopCount(rows, transaction_type, g, attempts + 1) :
                g \in _generate_transaction_reference(transaction_type)}

SaveOutcomes(rows, transaction_type) ==
  UNION {ReferenceLoopCount(rows, transaction_type, g, 0) :
           g \in _generate_transaction_reference(transaction_type)}

\* Mutant: transaction_reference has no unique index.
UniqueViolation_NoIndex(rows, reference) == FALSE

\* The unique index on transaction_reference.
UniqueViolation(rows, reference) == ReferenceExists(rows, reference)

NewRow(w, rw, amount, transaction_type, st, c, camt, reference, t) ==
  [wallet |-> w, related_wallet |-> rw, amount |-> amount,
   transaction_type |-> transaction_type, status |-> st,
   charge |-> c.name, charge_amount |-> Quantize(camt, rounding),
   sender_identifier |-> phone[w],
   receiver_identifier |-> IF rw \in Wallets THEN phone[rw] ELSE NoPhone,
   transaction_reference |-> reference, timestamp |-> t]

\* ------------------------------------------------------------- referrals
\* A user's wallet has the user's id; this user has none.
NoWalletUser == 4
ReferralIds == 1..5
NotCredited == -1

\* Referral rows as the tests create them: two users, the two bonuses, PENDING
\* unless set otherwise.
InitReferral ==
  [id \in ReferralIds |->
     CASE id = 1 -> [referrer |-> 1, referred |-> 2, referrer_bonus |-> 2 * Cent,
                     referred_bonus |-> 1 * Cent, bonus_status |-> "PENDING",
                     credited_at |-> NotCredited]
       [] id = 2 -> [referrer |-> 2, referred |-> 3, referrer_bonus |-> 1 * Cent,
                     referred_bonus |-> 0, bonus_status |-> "PENDING",
                     credited_at |-> NotCredited]
       [] id = 3 -> [referrer |-> NoWalletUser, referred |-> 3, referrer_bonus |-> 2 * Cent,
                     referred_bonus |-> 1 * Cent, bonus_status |-> "PENDING",
                     credited_at |-> NotCredited]
       [] id = 4 -> [referrer |-> 3, referred |-> NoWalletUser, referrer_bonus |-> 2 * Cent,
                     referred_bonus |-> 1 * Cent, bonus_status |-> "PENDING",
                     credited_at |-> NotCredited]
       [] OTHER -> [referrer |-> 3, referred |-> 1, referrer_bonus |-> 2 * Cent,
                    referred_bonus |-> 1 * Cent, bonus_status |-> "EXPIRED",
                    credited_at |-> NotCredited]]

\* A WhatsAppConfig object not yet handed to save.
NoConfig == [pk |-> 0, is_active |-> FALSE]

\* ------------------------------------------------------------------ Init
\* The receivers connected to the signals a saved Transaction goes through:
\* post_save (wallets/signals.py) and transaction_completed (wallets/handlers.py).
Receivers == {"broadcast_transaction_update", "handle_transaction_completed"}

InitOver(callers, start, f) ==
  /\ balance = start
  /\ feeBalance = 0
  /\ txs = <<>>
  /\ lockOwner = [w \in Wallets |-> NoProc]
  /\ now = 0
  /\ rounding \in RoundingModes
  /\ pc = [p \in callers |-> "idle"]
  /\ arg = [p \in callers |-> NoArg]
  /\ passedBal = [p \in callers |-> 0]
  /\ feeRead = [p \in callers |-> 0]
  /\ charge = [p \in callers |-> None]
  /\ chargeAmt = [p \in callers |-> 0]
  /\ sBal = [p \in callers |-> 0]
  /\ rBal = [p \in callers |-> 0]
  /\ ref = [p \in callers |-> NoRef]
  /\ returned = NoReturn
  /\ sent = <<>>
  /\ faulty = f
  /\ held = [p \in callers |-> NoHeld]
  /\ referral = InitReferral
  /\ referralLock = [id \in ReferralIds |-> NoProc]
  /\ configs = <<>>
  /\ saving = [p \in callers |-> NoConfig]
  /\ phone = InitPhone
  /\ task = [p \in callers |-> NoTask]
  /\ ledger = [w \in Wallets |-> 0]

InitWith(f) == InitOver(Procs, InitBalance, f)

\* Every receiver works.
Init == InitWith({})

\* Locals of a finished call are dropped.
ResetLocals(p) ==
  /\ arg' = [arg EXCEPT ![p] = NoArg]
  /\ passedBal' = [passedBal EXCEPT ![p] = 0]
  /\ feeRead' = [feeRead EXCEPT ![p] = 0]
  /\ charge' = [charge EXCEPT ![p] = None]
  /\ chargeAmt' = [chargeAmt EXCEPT ![p] = 0]
  /\ sBal' = [sBal EXCEPT ![p] = 0]
  /\ rBal' = [rBal EXCEPT ![p] = 0]
  /\ ref' = [ref EXCEPT ![p] = NoRef]

\* Rollback or commit releases every row lock of the atomic block.
Release(p) == [w \in Wallets |-> IF lockOwner[w] = p THEN NoProc ELSE lockOwner[w]]

\* The call of worker p ends with outcome, its last step having dispatched
\* and committed what events lists.
FinishSent(p, outcome, events) ==
  /\ pc' = [pc EXCEPT ![p] = "idle"]
  /\ returned' = Return(p, outcome)
  /\ sent' = events
  /\ lockOwner' = Release(p)
  /\ ResetLocals(p)

Finish(p, outcome) == FinishSent(p, outcome, <<>>)

\* The model stops taking requests once MaxTx rows exist or are being written.
InFlight == Cardinality({q \in DOMAIN pc : pc[q] # "idle"})
\* (one more row for every worker beyond NumProcs).
RoomForRow == Len(txs) + InFlight < MaxTx + (Cardinality(DOMAIN pc) - NumProcs)

\* ------------------------------------------------------ create_transaction
\* Mutant: the same-wallet check of lines 74-75 is missing.
Begin_NoSameCheck(p, s, r, amount, transaction_type) ==
  /\ pc[p] = "idle"
  /\ RoomForRow
  /\ pc' = [pc EXCEPT ![p] = "limit"]
  /\ returned' = NoReturn
  /\ sent' = <<>>
  /\ arg' = [arg EXCEPT ![p] = [s |-> s, r |-> r, amount |-> amount,
                                 type |-> transaction_type]]
  /\ passedBal' = [passedBal EXCEPT ![p] = balance[s]]
  /\ feeRead' = [feeRead EXCEPT ![p] = feeBalance]
  /\ UNCHANGED <<lockOwner, charge, chargeAmt, sBal, rBal, ref>>
  /\ UNCHANGED <<dbVars, now, env, ledger>>

\* Lines 74-79: the same-wallet check, then the atomic block opens and the fee
\* wallet is fetched.
Begin(p, s, r, amount, transaction_type) ==
  /\ pc[p] = "idle"
  /\ RoomForRow
  /\ IF s = r
     THEN /\ returned' = Return(p, "same_wallet")
          /\ sent' = <<>>
          /\ UNCHANGED <<pc, lockOwner, localVars>>
     ELSE /\ pc' = [pc EXCEPT ![p] = "limit"]
          /\ returned' = NoReturn
          /\ sent' = <<>>
          /\ arg' = [arg EXCEPT ![p] = [s |-> s, r |-> r, amount |-> amount,
                                         type |-> transaction_type]]
          /\ passedBal' = [passedBal EXCEPT ![p] = balance[s]]
          /\ feeRead' = [feeRead EXCEPT ![p] = feeBalance]
          /\ UNCHANGED <<lockOwner, charge, chargeAmt, sBal, rBal, ref>>
  /\ UNCHANGED <<dbVars, now, env, ledger>>

\* Mutant: a total that reaches the limit exactly is refused.
LimitExceeded_AtLimit(rows, w, t, amount) ==
  amount_sent_today(rows, w, t) + amount >= daily_limit(w)

\* Line 96.
LimitExceeded(rows, w, t, amount) ==
  amount_sent_today(rows, w, t) + amount > daily_limit(w)

\* Lines 81-105: limit enforcement and charge calculation.
CheckLimit(p) ==
  /\ pc[p] = "limit"
  /\ IF LimitExceeded(txs, arg[p].s, now, arg[p].amount)
     THEN Finish(p, "limit_exceeded")
     ELSE LET c == get_transaction_charge(arg[p].type, role[arg[p].s], arg[p].amount)
          IN /\ charge' = [charge EXCEPT ![p] = c]
             /\ chargeAmt' = [chargeAmt EXCEPT ![p] =
                                IF c # None THEN calculate_charge(c, arg[p].amount) ELSE 0]
             /\ pc' = [pc EXCEPT ![p] = "lock_sender"]
             /\ returned' = NoReturn
             /\ sent' = <<>>
             /\ UNCHANGED <<lockOwner, arg, passedBal, feeRead, sBal, rBal, ref>>
  /\ UNCHANGED <<dbVars, now, env, ledger>>

\* Mutant: the sender's row is read without select_for_update.
LockSender_NoLock(p) ==
  /\ pc[p] = "lock_sender"
  /\ sBal' = [sBal EXCEPT ![p] = balance[arg[p].s]]
  /\ pc' = [pc EXCEPT ![p] = "lock_receiver"]
  /\ returned' = NoReturn
  /\ sent' = <<>>
  /\ UNCHANGED <<dbVars, now, env, ledger, arg, passedBal, feeRead,
                 charge, chargeAmt, rBal, ref, lockOwner>>

\* Lines 108-110: select_for_update on the sender's row.
LockSender(p) ==
  /\ pc[p] = "lock_sender"
  /\ lockOwner[arg[p].s] \in {NoProc, p}
  /\ lockOwner' = [lockOwner EXCEPT ![arg[p].s] = p]
  /\ sBal' = [sBal EXCEPT ![p] = balance[arg[p].s]]
  /\ pc' = [pc EXCEPT ![p] = "lock_receiver"]
  /\ returned' = NoReturn
  /\ sent' = <<>>
  /\ UNCHANGED <<dbVars, now, env, ledger, arg, passedBal, feeRead,
                 charge, chargeAmt, rBal, ref>>

\* Lines 111-113: select_for_update on the receiver's row.
LockReceiver(p) ==
  /\ pc[p] = "lock_receiver"
  /\ lockOwner[arg[p].r] \in {NoProc, p}
  /\ lockOwner' = [lockOwner EXCEPT ![arg[p].r] = p]
  /\ rBal' = [rBal EXCEPT ![p] = balance[arg[p].r]]
  /\ pc' = [pc EXCEPT ![p] = "apply"]
  /\ returned' = NoReturn
  /\ sent' = <<>>
  /\ UNCHANGED <<dbVars, now, env, ledger, arg, passedBal, feeRead,
                 charge, chargeAmt, sBal, ref>>

SenderPays(p) == charge[p] # None /\ charge[p].applies_to = "SENDER"

\* Lines 115-125: what the sender must hold, and the funds check.
RequiredFunds(p) == IF SenderPays(p) THEN arg[p].amount + chargeAmt[p] ELSE arg[p].amount
\* Mutant: the funds check reads the wallet object handed to the call.
FundsBalance_Passed(p) == passedBal[p]
FundsBalance(p) == sBal[p]
InsufficientFunds(p) == FundsBalance(p) < RequiredFunds(p)

NewSenderBalance(p) == Quantize(sBal[p] - RequiredFunds(p), rounding)
NewReceiverBalance(p) ==
  Quantize(rBal[p] + (IF SenderPays(p) THEN arg[p].amount ELSE arg[p].amount - chargeAmt[p]),
           rounding)
NewFeeBalance(p) ==
  IF chargeAmt[p] > 0 THEN Quantize(feeRead[p] + chargeAmt[p], rounding) ELSE feeBalance

\* Lines 115-144 up to the INSERT: the funds check, the balance updates (not
\* visible to others before the commit) and Transaction.save's reference loop.
Apply(p) ==
  /\ pc[p] = "apply"
  /\ IF InsufficientFunds(p)
     THEN Finish(p, "insufficient_funds")
     ELSE \E g \in SaveReferences(txs, arg[p].type) :
            /\ ref' = [ref EXCEPT ![p] = g]
            /\ pc' = [pc EXCEPT ![p] = "insert"]
            /\ returned' = NoReturn
            /\ sent' = <<>>
            /\ UNCHANGED <<lockOwner, arg, passedBal, feeRead, charge, chargeAmt,
                           sBal, rBal>>
  /\ UNCHANGED <<dbVars, now, env, ledger>>

\* The two wallet saves of lines 132-133, in that order.
SavedBalances(p) ==
  [[balance EXCEPT ![arg[p].s] = NewSenderBalance(p)] EXCEPT ![arg[p].r] = NewReceiverBalance(p)]

\* Mutant: no atomic block, so the wallet and fee saves made before a failed
\* INSERT stay.
Commit_NoRollback(p) ==
  /\ pc[p] = "insert"
  /\ balance' = SavedBalances(p)
  /\ feeBalance' = NewFeeBalance(p)
  /\ ledger' = [w \in Wallets |->
                  ledger[w]
                  + (IF w = arg[p].s THEN NewSenderBalance(p) - sBal[p] ELSE 0)
                  + (IF w = arg[p].r THEN NewReceiverBalance(p) - rBal[p] ELSE 0)]
  /\ IF UniqueViolation(txs, ref[p])
     THEN /\ Finish(p, "integrity_error")
          /\ UNCHANGED txs
     ELSE /\ txs' = Append(txs, NewRow(arg[p].s, arg[p].r, arg[p].amount, arg[p].type,
                                       "COMPLETED", charge[p], chargeAmt[p], ref[p], now))
          /\ Finish(p, "ok")
  /\ UNCHANGED <<now, env>>

\* Line 147: Signal.send calls the receivers in the caller's thread and lets
\* an exception of a receiver propagate.
SendOutcome == IF "handle_transaction_completed" \in faulty THEN "dispatch_error" ELSE "ok"

\* Line 135-149.  The INSERT is checked against the unique index, and an
\* IntegrityError rolls the block back.  Model.save then sends post_save inside
\* the atomic block (an exception of its receiver rolls the block back), the
\* block commits, and transaction_completed is sent.
Commit(p) ==
  /\ pc[p] = "insert"
  /\ IF UniqueViolation(txs, ref[p])
     THEN /\ Finish(p, "integrity_error")
          /\ UNCHANGED <<dbVars, ledger>>
     ELSE IF "broadcast_transaction_update" \in faulty
     THEN /\ FinishSent(p, "receiver_error", <<"post_save">>)
          /\ UNCHANGED <<dbVars, ledger>>
     ELSE /\ balance' = SavedBalances(p)
          /\ feeBalance' = NewFeeBalance(p)
          /\ txs' = Append(txs, NewRow(arg[p].s, arg[p].r, arg[p].amount, arg[p].type,
                                       "COMPLETED", charge[p], chargeAmt[p], ref[p], now))
          /\ ledger' = [w \in Wallets |->
                          ledger[w]
                          + (IF w = arg[p].s THEN NewSenderBalance(p) - sBal[p] ELSE 0)
                          + (IF w = arg[p].r THEN NewReceiverBalance(p) - rBal[p] ELSE 0)]
          /\ FinishSent(p, SendOutcome, <<"post_save", "commit", "transaction_completed">>)
  /\ UNCHANGED <<now, env>>

\* Two atomic blocks that each wait for a row lock the other holds: the
\* database's deadlock detector aborts one of them, whose select_for_update
\* raises an OperationalError.
WaitsFor(p) ==
  IF pc[p] = "lock_sender" THEN lockOwner[arg[p].s]
  ELSE IF pc[p] = "lock_receiver" THEN lockOwner[arg[p].r]
  ELSE NoProc

Deadlocked(p, q) ==
  /\ p # q
  /\ WaitsFor(p) = q
  /\ WaitsFor(q) = p

DeadlockAbort(p) ==
  /\ \E q \in Procs : Deadlocked(p, q)
  /\ Finish(p, "db_error")
  /\ UNCHANGED <<dbVars, now, env, ledger>>

\* The clock.
Tick ==
  /\ now < MaxTime
  /\ now' = now + 1
  /\ returned' = NoReturn
  /\ sent' = <<>>
  /\ UNCHANGED <<dbVars, lockOwner, env, pc, localVars, ledger>>

\* Callers validate the amount: a positive whole number of cents.
Amounts == {1 * Cent, 3 * Cent}
CallTypes == {"TRANSFER", "PAYMENT"}
\* The wallets whose owners send requests in the concurrent specification.
Senders == {1, 2}

Next ==
  \/ \E p \in Procs, s \in Senders, r \in Senders, a \in Amounts, t \in CallTypes :
       Begin(p, s, r, a, t)
  \/ \E p \in Procs : CheckLimit(p)
  \/ \E p \in Procs : LockSender(p)
  \/ \E p \in Procs : LockReceiver(p)
  \/ \E p \in Procs : Apply(p)
  \/ \E p \in Procs : Commit(p)
  \/ \E p \in Procs : DeadlockAbort(p)

Spec == Init /\ [][Next]_vars

\* ------------------------------------------------------- top-up requests
\* PaynowTopUpRequestView.post / EcoCashTopUpRequestView.post: a PENDING DEPOSIT
\* row is created for the user's wallet (outside any atomic block).  First
\* Transaction.save runs its reference loop, then the row is inserted.
TopUpSave(p, w, amount) ==
  /\ pc[p] = "idle"
  /\ RoomForRow
  /\ \E g \in SaveReferences(txs, "DEPOSIT") :
       ref' = [ref EXCEPT ![p] = g]
  /\ arg' = [arg EXCEPT ![p] = [s |-> w, r |-> 0, amount |-> amount, type |-> "DEPOSIT"]]
  /\ pc' = [pc EXCEPT ![p] = "topup_insert"]
  /\ returned' = NoReturn
  /\ sent' = <<>>
  /\ UNCHANGED <<dbVars, lockOwner, now, env, ledger, passedBal, feeRead, charge,
                 chargeAmt, sBal, rBal>>

TopUpInsert(p) ==
  /\ pc[p] = "topup_insert"
  /\ IF UniqueViolation(txs, ref[p])
     THEN /\ Finish(p, "integrity_error")
          /\ UNCHANGED txs
     ELSE /\ txs' = Append(txs, NewRow(arg[p].s, 0, arg[p].amount, "DEPOSIT", "PENDING",
                                       None, 0, ref[p], now))
          /\ FinishSent(p, IF "broadcast_transaction_update" \in faulty
                            THEN "receiver_error" ELSE "pending_created",
                        <<"commit", "post_save">>)
  /\ UNCHANGED <<balance, feeBalance, now, env, ledger>>

\* The serializers require at least 1.00.
TopUpAmounts == {100 * Cent}

\* ------------------------------------------- one request after the other
\* A single worker, every wallet as sender, the clock running between requests.
SeqAmounts == {1 * Cent, 3 * Cent}
SeqTypes == {"TRANSFER", "WITHDRAWAL"}

NextSeq ==
  \/ \E s \in Wallets, r \in Senders, a \in SeqAmounts, t \in SeqTypes :
       Begin(1, s, r, a, t)
  \/ CheckLimit(1)
  \/ LockSender(1)
  \/ LockReceiver(1)
  \/ Apply(1)
  \/ Commit(1)
  \/ \E w \in Senders, a \in TopUpAmounts : TopUpSave(1, w, a)
  \/ TopUpInsert(1)
  \/ (pc[1] = "idle" /\ Tick)

SpecSeq == Init /\ [][NextSeq]_vars

\* --------------------------------------------- concurrent saves of new rows
\* Both workers create rows at the same time: top-up requests, and transfers
\* from wallet 1 to wallet 2 (a DEPOSIT transfer is a payout reversal).
RefTypes == {"TRANSFER", "DEPOSIT"}

NextRef ==
  \/ \E p \in Procs, w \in Senders, a \in TopUpAmounts : TopUpSave(p, w, a)
  \/ \E p \in Procs : TopUpInsert(p)
  \/ \E p \in Procs, t \in RefTypes : Begin(p, 1, 2, 1 * Cent, t)
  \/ \E p \in Procs : CheckLimit(p)
  \/ \E p \in Procs : LockSender(p)
  \/ \E p \in Procs : LockReceiver(p)
  \/ \E p \in Procs : Apply(p)
  \/ \E p \in Procs : Commit(p)

SpecRef == Init /\ [][NextRef]_vars

\* ------------------------------------------- requests that differ in wallets
\* Every worker, one amount and one type: the calls differ only in the sender
\* and receiver wallets they name.
NextIds ==
  \/ \E p \in Procs, s \in Senders, r \in Senders : Begin(p, s, r, 1 * Cent, "TRANSFER")
  \/ \E p \in Procs : CheckLimit(p)
  \/ \E p \in Procs : LockSender(p)
  \/ \E p \in Procs : LockReceiver(p)
  \/ \E p \in Procs : Apply(p)
  \/ \E p \in Procs : Commit(p)
  \/ \E p \in Procs : DeadlockAbort(p)

SpecIds == Init /\ [][NextIds]_vars

\* ------------------------------------------------ receivers that may raise
\* The same requests, the channel layer or the task broker possibly down.
InitNotify == \E f \in SUBSET Receivers : InitWith(f)

SpecNotify == InitNotify /\ [][NextIds]_vars

\* --------------------------------------------------------- admin top-up
\* WalletAdmin.process_top_up, for one selected wallet.  Lines 43-46: the
\* queryset is evaluated inside the atomic block, without a row lock.
AdminRead(p, w, amount) ==
  /\ pc[p] = "idle"
  /\ RoomForRow
  /\ pc' = [pc EXCEPT ![p] = "admin_save"]
  /\ arg' = [arg EXCEPT ![p] = [s |-> w, r |-> 0, amount |-> amount, type |-> "DEPOSIT"]]
  /\ sBal' = [sBal EXCEPT ![p] = balance[w]]
  /\ returned' = NoReturn
  /\ sent' = <<>>
  /\ UNCHANGED <<dbVars, lockOwner, now, env, ledger, passedBal, feeRead, charge,
                 chargeAmt, rBal, ref>>

\* Lines 47-57 and the commit: the UPDATE waits for the row lock, then writes
\* the balance computed from the earlier read; the COMPLETED DEPOSIT row is
\* inserted and post_save is sent inside the block.
AdminSave(p) ==
  /\ pc[p] = "admin_save"
  /\ lockOwner[arg[p].s] = NoProc
  /\ \E g \in SaveReferences(txs, "DEPOSIT") :
       IF UniqueViolation(txs, g)
       THEN /\ Finish(p, "integrity_error")
            /\ UNCHANGED <<dbVars, ledger>>
       ELSE IF "broadcast_transaction_update" \in faulty
       THEN /\ FinishSent(p, "receiver_error", <<"post_save">>)
            /\ UNCHANGED <<dbVars, ledger>>
       ELSE LET w == arg[p].s
                new == Quantize(sBal[p] + arg[p].amount, rounding)
            IN /\ balance' = [balance EXCEPT ![w] = new]
               /\ txs' = Append(txs, NewRow(w, 0, arg[p].amount, "DEPOSIT", "COMPLETED",
                                            None, 0, g, now))
               /\ ledger' = [ledger EXCEPT ![w] = @ + new - sBal[p]]
               /\ FinishSent(p, "topped_up", <<"post_save", "commit">>)
               /\ UNCHANGED feeBalance
  /\ UNCHANGED <<now, env>>

\* The form requires at least 0.01.
AdminAmounts == {1 * Cent}

NextAdmin ==
  \/ NextIds
  \/ \E p \in Procs, w \in Senders, a \in AdminAmounts : AdminRead(p, w, a)
  \/ \E p \in Procs : AdminSave(p)

SpecAdmin == Init /\ [][NextAdmin]_vars

\* --------------------------------------- one request of every charged kind
\* A single worker, every wallet as sender, every type a charge rule names.
ChargeTypes == {"TRANSFER", "PAYMENT", "WITHDRAWAL"}
ChargeAmounts == {1 * Cent, 3 * Cent}

NextCharge ==
  \/ \E s \in Wallets, r \in Senders, a \in ChargeAmounts, t \in ChargeTypes :
       Begin(1, s, r, a, t)
  \/ CheckLimit(1)
  \/ LockSender(1)
  \/ LockReceiver(1)
  \/ Apply(1)
  \/ Commit(1)

SpecCharge == Init /\ [][NextCharge]_vars

\* ------------------------------------------- callers that pass any amount
\* process_ecocash_withdrawal and the other internal callers hand
\* create_transaction a Decimal no serializer has validated.
SignedAmounts == {-1 * Cent, 0, 1 * Cent}

NextSigned ==
  \/ \E p \in Procs, s \in Senders, r \in Senders, a \in SignedAmounts :
       Begin(p, s, r, a, "TRANSFER")
  \/ \E p \in Procs : CheckLimit(p)
  \/ \E p \in Procs : LockSender(p)
  \/ \E p \in Procs : LockReceiver(p)
  \/ \E p \in Procs : Apply(p)
  \/ \E p \in Procs : Commit(p)
  \/ \E p \in Procs : DeadlockAbort(p)

SpecSigned == Init /\ [][NextSigned]_vars

\* -------------------------------------------------------- Paynow webhook
\* PaynowWebhookView.post.  Lines 141-154: the row is fetched by id and
\* status PENDING, without a lock; an unknown or processed id gives a 404.
WebhookGet(p, id, paid) ==
  /\ pc[p] = "idle"
  /\ id \in 1..Len(txs)
  /\ IF txs[id].status = "PENDING"
     THEN /\ held' = [held EXCEPT ![p] = [id |-> id, paid |-> paid,
                                               phone_number |-> phone[txs[id].wallet]]]
          /\ pc' = [pc EXCEPT ![p] = IF paid THEN "webhook_lock" ELSE "webhook_fail"]
          /\ returned' = NoReturn
     ELSE /\ returned' = Return(p, "not_found")
          /\ UNCHANGED <<held, pc>>
  /\ sent' = <<>>
  /\ UNCHANGED <<dbVars, lockOwner, now, rounding, faulty, phone, task, referralVars, configVars, ledger, localVars>>

\* Lines 157-160: the wallet row is locked and read.
WebhookLock(p) ==
  /\ pc[p] = "webhook_lock"
  /\ lockOwner[txs[held[p].id].wallet] = NoProc
  /\ lockOwner' = [lockOwner EXCEPT ![txs[held[p].id].wallet] = p]
  /\ sBal' = [sBal EXCEPT ![p] = balance[txs[held[p].id].wallet]]
  /\ pc' = [pc EXCEPT ![p] = "webhook_save"]
  /\ returned' = NoReturn
  /\ sent' = <<>>
  /\ UNCHANGED <<dbVars, now, rounding, faulty, phone, task, held, referralVars, configVars, ledger, arg, passedBal, feeRead,
                 charge, chargeAmt, rBal, ref>>

\* Lines 161-172 and the commit: the wallet is credited with the amount of
\* the fetched object, which is saved as COMPLETED.
WebhookSave(p) ==
  /\ pc[p] = "webhook_save"
  /\ LET id == held[p].id
         w == txs[id].wallet
         new == Quantize(sBal[p] + txs[id].amount, rounding)
     IN /\ balance' = [balance EXCEPT ![w] = new]
        /\ txs' = [txs EXCEPT ![id].status = "COMPLETED",
                              ![id].sender_identifier = held[p].phone_number]
        /\ ledger' = [ledger EXCEPT ![w] = @ + new - sBal[p]]
  /\ held' = [held EXCEPT ![p] = NoHeld]
  /\ FinishSent(p, "completed", <<"post_save", "commit">>)
  /\ UNCHANGED <<feeBalance, now, rounding, faulty, phone, task, referralVars, configVars>>

\* Lines 173-176: any other status saves the fetched object as FAILED.
WebhookFail(p) ==
  /\ pc[p] = "webhook_fail"
  /\ txs' = [txs EXCEPT ![held[p].id].status = "FAILED",
                        ![held[p].id].sender_identifier = held[p].phone_number]
  /\ held' = [held EXCEPT ![p] = NoHeld]
  /\ FinishSent(p, "failed", <<"commit", "post_save">>)
  /\ UNCHANGED <<balance, feeBalance, now, rounding, faulty, phone, task, referralVars, configVars, ledger>>

\* Top-up requests and the webhook calls about them.
NextWebhook ==
  \/ \E p \in Procs, w \in Senders, a \in TopUpAmounts : TopUpSave(p, w, a)
  \/ \E p \in Procs : TopUpInsert(p)
  \/ \E p \in Procs, id \in 1..MaxTx, paid \in BOOLEAN : WebhookGet(p, id, paid)
  \/ \E p \in Procs : WebhookLock(p)
  \/ \E p \in Procs : WebhookSave(p)
  \/ \E p \in Procs : WebhookFail(p)

SpecWebhook == Init /\ [][NextWebhook]_vars

\* ------------------------------------------------ credit_referral_bonuses
\* The COMMISSION rows a credit of referral id creates.
RowsOf(id) ==
  (IF referral[id].referrer_bonus > 0 THEN 1 ELSE 0)
  + (IF referral[id].referred_bonus > 0 THEN 1 ELSE 0)

\* The referral whose row worker p has locked.
LockedReferral(p) == CHOOSE id \in ReferralIds : referralLock[id] = p

ReleaseReferral(p) ==
  [id \in ReferralIds |-> IF referralLock[id] = p THEN NoProc ELSE referralLock[id]]

\* Mutant: the CREDITED check of lines 53-55 is missing.
ReferralGet_NoCreditedCheck(p, id) ==
  /\ pc[p] = "idle"
  /\ IF id \notin ReferralIds
     THEN /\ Finish(p, "referral_error")
          /\ UNCHANGED referralLock
     ELSE /\ referralLock[id] = NoProc
          /\ IF referral[id].bonus_status = "EXPIRED"
             THEN /\ Finish(p, "referral_error")
                  /\ UNCHANGED referralLock
             ELSE /\ referralLock' = [referralLock EXCEPT ![id] = p]
                  /\ pc' = [pc EXCEPT ![p] = "referrer_wallet"]
                  /\ returned' = NoReturn
                  /\ sent' = <<>>
                  /\ UNCHANGED <<lockOwner, localVars>>
  /\ UNCHANGED <<dbVars, now, rounding, faulty, phone, task, held, referral, configVars, ledger>>

\* Mutant: the EXPIRED check of lines 57-58 is missing.
ReferralGet_NoExpiredCheck(p, id) ==
  /\ pc[p] = "idle"
  /\ IF id \notin ReferralIds
     THEN /\ Finish(p, "referral_error")
          /\ UNCHANGED referralLock
     ELSE /\ referralLock[id] = NoProc
          /\ IF referral[id].bonus_status = "CREDITED"
             THEN /\ Finish(p, "already_credited")
                  /\ UNCHANGED referralLock
             ELSE /\ referralLock' = [referralLock EXCEPT ![id] = p]
                  /\ pc' = [pc EXCEPT ![p] = "referrer_wallet"]
                  /\ returned' = NoReturn
                  /\ sent' = <<>>
                  /\ UNCHANGED <<lockOwner, localVars>>
  /\ UNCHANGED <<dbVars, now, rounding, faulty, phone, task, held, referral, configVars, ledger>>

\* Lines 45-58: the atomic block begins, the referral row is locked and read.
\* An unknown id or an EXPIRED referral raises ReferralBonusError, a CREDITED
\* one is returned as it is; leaving the block releases the row.
ReferralGet(p, id) ==
  /\ pc[p] = "idle"
  /\ IF id \notin ReferralIds
     THEN /\ Finish(p, "referral_error")
          /\ UNCHANGED referralLock
     ELSE /\ referralLock[id] = NoProc
          /\ IF referral[id].bonus_status = "CREDITED"
             THEN /\ Finish(p, "already_credited")
                  /\ UNCHANGED referralLock
             ELSE IF referral[id].bonus_status = "EXPIRED"
             THEN /\ Finish(p, "referral_error")
                  /\ UNCHANGED referralLock
             ELSE /\ referralLock' = [referralLock EXCEPT ![id] = p]
                  /\ pc' = [pc EXCEPT ![p] = "referrer_wallet"]
                  /\ returned' = NoReturn
                  /\ sent' = <<>>
                  /\ UNCHANGED <<lockOwner, localVars>>
  /\ UNCHANGED <<dbVars, now, rounding, faulty, phone, task, held, referral, configVars, ledger>>

\* Lines 61-64: the referrer's wallet row is locked and read, or there is none.
ReferralLockReferrer(p) ==
  /\ pc[p] = "referrer_wallet"
  /\ LET u == referral[LockedReferral(p)].referrer
     IN IF u \notin Wallets
        THEN /\ Finish(p, "referral_error")
             /\ referralLock' = ReleaseReferral(p)
        ELSE /\ lockOwner[u] = NoProc
             /\ lockOwner' = [lockOwner EXCEPT ![u] = p]
             /\ sBal' = [sBal EXCEPT ![p] = balance[u]]
             /\ pc' = [pc EXCEPT ![p] = "referred_wallet"]
             /\ returned' = NoReturn
             /\ sent' = <<>>
             /\ UNCHANGED <<referralLock, arg, passedBal, feeRead, charge, chargeAmt, rBal, ref>>
  /\ UNCHANGED <<dbVars, now, rounding, faulty, phone, task, held, referral, configVars, ledger>>

\* Lines 66-69: the same for the referred user's wallet.
ReferralLockReferred(p) ==
  /\ pc[p] = "referred_wallet"
  /\ LET u == referral[LockedReferral(p)].referred
     IN IF u \notin Wallets
        THEN /\ Finish(p, "referral_error")
             /\ referralLock' = ReleaseReferral(p)
        ELSE /\ lockOwner[u] = NoProc
             /\ lockOwner' = [lockOwner EXCEPT ![u] = p]
             /\ rBal' = [rBal EXCEPT ![p] = balance[u]]
             /\ pc' = [pc EXCEPT ![p] = "credit"]
             /\ returned' = NoReturn
             /\ sent' = <<>>
             /\ UNCHANGED <<referralLock, arg, passedBal, feeRead, charge, chargeAmt, sBal, ref>>
  /\ UNCHANGED <<dbVars, now, rounding, faulty, phone, task, held, referral, configVars, ledger>>

\* The COMMISSION row of lines 76-82 and 90-96.
BonusRow(w, amount, reference) ==
  NewRow(w, 0, amount, "COMMISSION", "COMPLETED", None, 0, reference, now)

\* Mutant: the referred user's bonus of lines 86-96 is not credited.
ReferralCredit_ReferrerOnly(p) ==
  /\ pc[p] = "credit"
  /\ LET id == LockedReferral(p)
         r == referral[id]
         newS == Quantize(sBal[p] + r.referrer_bonus, rounding)
     IN \E g1 \in SaveReferences(txs, "COMMISSION") :
          LET rows1 == IF r.referrer_bonus > 0
                       THEN Append(txs, BonusRow(r.referrer, r.referrer_bonus, g1))
                       ELSE txs
          IN IF r.referrer_bonus > 0 /\ UniqueViolation(txs, g1)
             THEN /\ Finish(p, "integrity_error")
                  /\ UNCHANGED <<dbVars, ledger, referral>>
             ELSE /\ balance' = [balance EXCEPT ![r.referrer] =
                                   IF r.referrer_bonus > 0 THEN newS ELSE @]
                  /\ txs' = rows1
                  /\ ledger' = [ledger EXCEPT ![r.referrer] =
                                  IF r.referrer_bonus > 0 THEN @ + newS - sBal[p] ELSE @]
                  /\ referral' = [referral EXCEPT ![id].bonus_status = "CREDITED",
                                                   ![id].credited_at = now]
                  /\ FinishSent(p, "credited", <<"post_save", "commit">>)
                  /\ UNCHANGED feeBalance
  /\ referralLock' = ReleaseReferral(p)
  /\ UNCHANGED <<now, rounding, faulty, phone, task, held, configVars>>

\* Lines 71-106 and the commit: each positive bonus is added to the balance
\* read under the lock and recorded as a COMPLETED COMMISSION row, the second
\* save seeing the first row; the referral is marked CREDITED.  A reference
\* that is taken after max_attempts or a raising post_save receiver rolls the
\* block back.
ReferralCredit(p) ==
  /\ pc[p] = "credit"
  /\ LET id == LockedReferral(p)
         r == referral[id]
         newS == Quantize(sBal[p] + r.referrer_bonus, rounding)
         newR == Quantize(rBal[p] + r.referred_bonus, rounding)
     IN \E g1 \in SaveReferences(txs, "COMMISSION") :
          LET rows1 == IF r.referrer_bonus > 0
                       THEN Append(txs, BonusRow(r.referrer, r.referrer_bonus, g1))
                       ELSE txs
          IN \E g2 \in SaveReferences(rows1, "COMMISSION") :
               LET rows2 == IF r.referred_bonus > 0
                            THEN Append(rows1, BonusRow(r.referred, r.referred_bonus, g2))
                            ELSE rows1
               IN IF \/ r.referrer_bonus > 0 /\ UniqueViolation(txs, g1)
                     \/ r.referred_bonus > 0 /\ UniqueViolation(rows1, g2)
                  THEN /\ Finish(p, "integrity_error")
                       /\ UNCHANGED <<dbVars, ledger, referral>>
                  ELSE IF rows2 # txs /\ "broadcast_transaction_update" \in faulty
                  THEN /\ FinishSent(p, "receiver_error", <<"post_save">>)
                       /\ UNCHANGED <<dbVars, ledger, referral>>
                  ELSE /\ balance' = [w \in Wallets |->
                                        IF w = r.referrer /\ r.referrer_bonus > 0 THEN newS
                                        ELSE IF w = r.referred /\ r.referred_bonus > 0 THEN newR
                                        ELSE balance[w]]
                       /\ txs' = rows2
                       /\ ledger' = [w \in Wallets |-> ledger[w] + balance'[w] - balance[w]]
                       /\ referral' = [referral EXCEPT ![id].bonus_status = "CREDITED",
                                                        ![id].credited_at = now]
                       /\ FinishSent(p, "credited",
                                     [i \in 1..(Len(rows2) - Len(txs)) |-> "post_save"]
                                     \o <<"commit">>)
                       /\ UNCHANGED feeBalance
  /\ referralLock' = ReleaseReferral(p)
  /\ UNCHANGED <<now, rounding, faulty, phone, task, held, configVars>>

\* Ids handed to credit_referral_bonuses: every referral and an unknown id.
CalledIds == ReferralIds \cup {6}

NextReferral ==
  \/ \E p \in Procs, id \in CalledIds : ReferralGet(p, id)
  \/ \E p \in Procs : ReferralLockReferrer(p)
  \/ \E p \in Procs : ReferralLockReferred(p)
  \/ \E p \in Procs : ReferralCredit(p)
  \/ (\A p \in Procs : pc[p] = "idle") /\ Tick

SpecReferral == Init /\ [][NextReferral]_vars

\* ---------------------------------------------------------- WhatsAppConfig
\* The pk of an object that was never saved.
NewPk == 0

OtherActive(pk) == \E i \in 1..Len(configs) : i # pk /\ configs[i]

\* The model stops creating configs once MaxConfigs rows exist or are being written.
RoomForConfig ==
  Len(configs) + Cardinality({q \in Procs : pc[q] = "config_save" /\ saving[q].pk = NewPk})
    < MaxConfigs

\* WhatsAppConfig.save, line 77: full_clean runs clean (lines 62-73), which
\* raises ValidationError when the object is active and another row is.
ConfigClean(p, pk, is_active) ==
  /\ pc[p] = "idle"
  /\ pk = NewPk \/ pk \in 1..Len(configs)
  /\ pk = NewPk => RoomForConfig
  /\ IF is_active /\ OtherActive(pk)
     THEN /\ returned' = Return(p, "validation_error")
          /\ UNCHANGED <<pc, saving>>
     ELSE /\ saving' = [saving EXCEPT ![p] = [pk |-> pk, is_active |-> is_active]]
          /\ pc' = [pc EXCEPT ![p] = "config_save"]
          /\ returned' = NoReturn
  /\ sent' = <<>>
  /\ UNCHANGED <<dbVars, lockOwner, now, rounding, faulty, phone, task, held, referralVars, configs,
                 ledger, localVars>>

\* Line 78: super().save inserts the row or updates it.
ConfigSave(p) ==
  /\ pc[p] = "config_save"
  /\ configs' = IF saving[p].pk = NewPk
                THEN Append(configs, saving[p].is_active)
                ELSE [configs EXCEPT ![saving[p].pk] = saving[p].is_active]
  /\ saving' = [saving EXCEPT ![p] = NoConfig]
  /\ pc' = [pc EXCEPT ![p] = "idle"]
  /\ returned' = Return(p, "saved")
  /\ sent' = <<>>
  /\ UNCHANGED <<dbVars, lockOwner, now, rounding, faulty, phone, task, held, referralVars, ledger,
                 localVars>>

NextConfig ==
  \/ \E p \in Procs, pk \in 0..MaxConfigs, is_active \in BOOLEAN : ConfigClean(p, pk, is_active)
  \/ \E p \in Procs : ConfigSave(p)

SpecConfig == Init /\ [][NextConfig]_vars

\* ------------------------------------------- credits, then a transfer
\* One worker: the operations that credit a wallet (admin top-up, Paynow
\* top-up and its webhook, referral bonus) and create_transaction.
NextAllowance ==
  \/ \E s \in Senders, r \in Senders : Begin(1, s, r, 1 * Cent, "TRANSFER")
  \/ CheckLimit(1)
  \/ LockSender(1)
  \/ LockReceiver(1)
  \/ Apply(1)
  \/ Commit(1)
  \/ \E w \in Senders, a \in AdminAmounts : AdminRead(1, w, a)
  \/ AdminSave(1)
  \/ \E w \in Senders, a \in TopUpAmounts : TopUpSave(1, w, a)
  \/ TopUpInsert(1)
  \/ \E id \in 1..MaxTx, paid \in BOOLEAN : WebhookGet(1, id, paid)
  \/ WebhookLock(1)
  \/ WebhookSave(1)
  \/ WebhookFail(1)
  \/ \E id \in {1, 2} : ReferralGet(1, id)
  \/ ReferralLockReferrer(1)
  \/ ReferralLockReferred(1)
  \/ ReferralCredit(1)

SpecAllowance == Init /\ [][NextAllowance]_vars

\* ------------------------------------------------- a phone number changes
\* OviiUserAdmin: phone_number is an editable field of the user page.
ChangePhone(w) ==
  /\ phone[w] = InitPhone[w]
  /\ phone' = [phone EXCEPT ![w] = ChangedPhone(w)]
  /\ returned' = NoReturn
  /\ sent' = <<>>
  /\ UNCHANGED <<dbVars, lockOwner, now, rounding, faulty, held, referralVars, configVars,
                 task, pc, localVars, ledger>>

\* One worker: top-up requests, the webhook calls about them, and users whose
\* phone number changes in between.
NextPhone ==
  \/ \E w \in Senders, a \in TopUpAmounts : TopUpSave(1, w, a)
  \/ TopUpInsert(1)
  \/ \E id \in 1..MaxTx, paid \in BOOLEAN : WebhookGet(1, id, paid)
  \/ WebhookLock(1)
  \/ WebhookSave(1)
  \/ WebhookFail(1)
  \/ \E w \in Senders : ChangePhone(w)

SpecPhone == Init /\ [][NextPhone]_vars

\* ------------------------------------------- saves that meet a taken prefix
\* One worker: top-up requests and payout reversals, both saved with prefix DP.
NextSave ==
  \/ \E w \in Senders, a \in TopUpAmounts : TopUpSave(1, w, a)
  \/ TopUpInsert(1)
  \/ \E t \in RefTypes : Begin(1, 1, 2, 1 * Cent, t)
  \/ CheckLimit(1)
  \/ LockSender(1)
  \/ LockReceiver(1)
  \/ Apply(1)
  \/ Commit(1)

SpecSave == Init /\ [][NextSave]_vars

\* ------------------------------------------- more callers than two
\* One worker more than NumProcs, all sending from wallet 1 to wallet 2 at the
\* same time; wallet 1 holds enough for all of them.
Callers == 1..(NumProcs + 1)
CrowdBalance == [w \in Wallets |-> IF w = 1 THEN (3 * NumProcs + 4) * Cent ELSE InitBalance[w]]
InitCrowd == InitOver(Callers, CrowdBalance, {})

NextCrowd ==
  \/ \E p \in Callers, t \in CallTypes : Begin(p, 1, 2, 3 * Cent, t)
  \/ \E p \in Callers : CheckLimit(p)
  \/ \E p \in Callers : LockSender(p)
  \/ \E p \in Callers : LockReceiver(p)
  \/ \E p \in Callers : Apply(p)
  \/ \E p \in Callers : Commit(p)

SpecCrowd == InitCrowd /\ [][NextCrowd]_vars

\* ------------------------------------------- process_ecocash_withdrawal
\* Errors the task and the views catch around create_transaction.
BusinessErrors == {"same_wallet", "limit_exceeded", "insufficient_funds"}

\* The create_transaction call of worker p's task has returned or raised.
CallEnded(p) == pc[p] = "idle" /\ returned.p = p

\* Lines 20-30: the task is picked up; user, amount and the payout user are
\* loaded.  start records the user's balance for the properties.
WithdrawStart(p, u, w, amount) ==
  /\ pc[p] = "idle"
  /\ task[p].stage \in {"none", "done"}
  /\ u # w
  /\ task' = [task EXCEPT ![p] = [NoTask EXCEPT !.stage = "debit", !.user = u, !.payout = w,
                                                !.amount = amount, !.start = balance[u]]]
  /\ returned' = NoReturn
  /\ sent' = <<>>
  /\ UNCHANGED <<dbVars, lockOwner, now, rounding, faulty, held, referralVars, configVars,
                 phone, pc, localVars, ledger>>

\* Lines 33-40: the debit, a WITHDRAWAL from the user to the payout wallet.
WithdrawDebit(p) ==
  /\ task[p].stage = "debit"
  /\ returned = NoReturn
  /\ Begin(p, task[p].user, task[p].payout, task[p].amount, "WITHDRAWAL")

\* Lines 41-60: a business error ends the task; any other exception of the
\* debit fails it.  After a debit the EcoCash client is called: it returns
\* (paid) or raises, and then the funds are to be reverted.
WithdrawPayout(p, paid) ==
  /\ task[p].stage = "debit"
  /\ CallEnded(p)
  /\ task' = [task EXCEPT ![p].stage = IF returned.value # "ok" \/ paid THEN "done" ELSE "revert",
                          ![p].paid = returned.value = "ok" /\ paid]
  /\ returned' = NoReturn
  /\ sent' = <<>>
  /\ UNCHANGED <<dbVars, lockOwner, now, rounding, faulty, held, referralVars, configVars,
                 phone, pc, localVars, ledger>>

\* Lines 61-67: the reversal, a DEPOSIT from the payout wallet to the user.
WithdrawRevert(p) ==
  /\ task[p].stage = "revert"
  /\ returned = NoReturn
  /\ Begin(p, task[p].payout, task[p].user, task[p].amount, "DEPOSIT")

\* Lines 68-72: whatever the reversal raised is logged; self.retry runs the
\* task again, or raises for good after max_retries retries.
WithdrawRetry(p) ==
  /\ task[p].stage = "revert"
  /\ CallEnded(p)
  /\ task' = [task EXCEPT ![p].stage = IF task[p].retries < max_retries THEN "debit" ELSE "done",
                          ![p].retries = IF task[p].retries < max_retries THEN @ + 1 ELSE @]
  /\ returned' = NoReturn
  /\ sent' = <<>>
  /\ UNCHANGED <<dbVars, lockOwner, now, rounding, faulty, held, referralVars, configVars,
                 phone, pc, localVars, ledger>>

WithdrawAmounts == {1 * Cent, 4 * Cent}

\* One worker runs withdrawal tasks, one after the other.
NextWithdraw ==
  \/ \E u \in Senders, w \in Wallets, a \in WithdrawAmounts : WithdrawStart(1, u, w, a)
  \/ WithdrawDebit(1)
  \/ \E paid \in BOOLEAN : WithdrawPayout(1, paid)
  \/ WithdrawRevert(1)
  \/ WithdrawRetry(1)
  \/ CheckLimit(1)
  \/ LockSender(1)
  \/ LockReceiver(1)
  \/ Apply(1)
  \/ Commit(1)

SpecWithdraw == Init /\ [][NextWithdraw]_vars

\* ------------------------------------------------- merchant payments
\* MerchantRequestPaymentView.perform_create: serializer.save stores a PENDING
\* PAYMENT row owned by the customer, the merchant's wallet as related_wallet.
\* First Transaction.save runs its reference loop, then the row is inserted.
RequestSave(p, m, c, amount) ==
  /\ pc[p] = "idle"
  /\ task[p].stage = "none"
  /\ RoomForRow
  /\ role[c] = "CUSTOMER"
  /\ \E g \in SaveReferences(txs, "PAYMENT") :
       ref' = [ref EXCEPT ![p] = g]
  /\ arg' = [arg EXCEPT ![p] = [s |-> c, r |-> m, amount |-> amount, type |-> "PAYMENT"]]
  /\ pc' = [pc EXCEPT ![p] = "request_insert"]
  /\ returned' = NoReturn
  /\ sent' = <<>>
  /\ UNCHANGED <<dbVars, lockOwner, now, env, ledger, passedBal, feeRead, charge,
                 chargeAmt, sBal, rBal>>

RequestInsert(p) ==
  /\ pc[p] = "request_insert"
  /\ IF UniqueViolation(txs, ref[p])
     THEN /\ Finish(p, "integrity_error")
          /\ UNCHANGED txs
     ELSE /\ txs' = Append(txs, NewRow(arg[p].s, arg[p].r, arg[p].amount, "PAYMENT", "PENDING",
                                       None, 0, ref[p], now))
          /\ FinishSent(p, IF "broadcast_transaction_update" \in faulty
                            THEN "receiver_error" ELSE "pending_created",
                        <<"commit", "post_save">>)
  /\ UNCHANGED <<balance, feeBalance, now, env, ledger>>

\* ApproveMerchantPaymentView.post, lines 129-145: the customer's PENDING
\* PAYMENT row is fetched without a lock (404 otherwise) and the PIN is
\* validated.  The view is taken as its lines read: get_serializer is the
\* PIN validation it names, although APIView does not define it.
ApproveGet(p, u, id) ==
  /\ pc[p] = "idle"
  /\ task[p].stage = "none"
  /\ verification_level[u] >= 1
  /\ id \in 1..Len(txs)
  /\ IF /\ txs[id].wallet = u
        /\ txs[id].status = "PENDING"
        /\ txs[id].transaction_type = "PAYMENT"
     THEN /\ task' = [task EXCEPT ![p] = [NoTask EXCEPT !.stage = "approve", !.id = id,
                                                        !.user = txs[id].wallet,
                                                        !.payout = txs[id].related_wallet,
                                                        !.amount = txs[id].amount]]
          /\ returned' = NoReturn
     ELSE /\ returned' = Return(p, "not_found")
          /\ UNCHANGED task
  /\ sent' = <<>>
  /\ UNCHANGED <<dbVars, lockOwner, now, rounding, faulty, held, referralVars, configVars,
                 phone, pc, localVars, ledger>>

\* Lines 147-156: create_transaction with the fetched row's wallets and amount.
ApproveTransfer(p) ==
  /\ task[p].stage = "approve"
  /\ ~CallEnded(p)
  /\ Begin(p, task[p].user, task[p].payout, task[p].amount, "PAYMENT")

\* Lines 157-167: after the transfer the fetched row is saved as FAILED
\* ("Superseded by ..."); a business error is answered with a 400.
ApproveRespond(p) ==
  /\ task[p].stage = "approve"
  /\ CallEnded(p)
  /\ IF returned.value = "ok"
     THEN /\ txs' = [txs EXCEPT ![task[p].id].status = "FAILED",
                                ![task[p].id].sender_identifier = phone[task[p].user]]
          /\ FinishSent(p, "approved", <<"commit", "post_save">>)
     ELSE /\ Finish(p, returned.value)
          /\ UNCHANGED txs
  /\ task' = [task EXCEPT ![p] = NoTask]
  /\ UNCHANGED <<balance, feeBalance, now, rounding, faulty, held, referralVars, configVars,
                 phone, ledger>>

\* The response to a call is written before any other worker's next step.
Responded(p) ==
  \A q \in DOMAIN pc \ {p} : ~(task[q].stage = "approve" /\ CallEnded(q))

RequestAmounts == {3 * Cent}
Merchants == {2}
Customers == {1, 3}

InitApprove == InitOver(Callers, InitBalance, {})

\* A merchant's payment requests and the customers' approvals of them.
NextApprove ==
  \/ \E p \in Callers, m \in Merchants, c \in Customers, a \in RequestAmounts :
       Responded(p) /\ RequestSave(p, m, c, a)
  \/ \E p \in Callers : Responded(p) /\ RequestInsert(p)
  \/ \E p \in Callers, u \in Customers, id \in 1..(MaxTx + 1) :
       Responded(p) /\ ApproveGet(p, u, id)
  \/ \E p \in Callers : Responded(p) /\ ApproveTransfer(p)
  \/ \E p \in Callers : ApproveRespond(p)
  \/ \E p \in Callers : Responded(p) /\ CheckLimit(p)
  \/ \E p \in Callers : Responded(p) /\ LockSender(p)
  \/ \E p \in Callers : Responded(p) /\ LockReceiver(p)
  \/ \E p \in Callers : Responded(p) /\ Apply(p)
  \/ \E p \in Callers : Responded(p) /\ Commit(p)

SpecApprove == InitApprove /\ [][NextApprove]_vars

\* ----------------------------------------------------------------- claims

\* C1: in every reachable state every user wallet's balance is >= 0 (no
\* committed transfer leaves the sender or the receiver negative).
C1_NonNegativeBalances == \A w \in Wallets : balance[w] >= 0

\* The step in which worker p's atomic block commits.
Commits(p) == pc[p] = "insert" /\ returned' = Return(p, "ok")

\* C2: no lost update and no double spend.  Every wallet's balance is its
\* initial balance plus the credits minus the debits of the committed calls,
\* and every committing call debits and credits the balances that are current
\* at its commit, the sender's covering the funds the call requires.
C2_LedgerBalanced == \A w \in Wallets : balance[w] = InitBalance[w] + ledger[w]
C2_CommitStep ==
  \A p \in Procs :
    Commits(p) =>
      LET s == arg[p].s
          r == arg[p].r
          required == IF charge[p] # None /\ charge[p].applies_to = "SENDER"
                      THEN arg[p].amount + chargeAmt[p] ELSE arg[p].amount
          credit == IF charge[p] # None /\ charge[p].applies_to = "SENDER"
                    THEN arg[p].amount ELSE arg[p].amount - chargeAmt[p]
      IN /\ balance[s] >= required
         /\ balance'[s] = Quantize(balance[s] - required, rounding)
         /\ balance'[r] = Quantize(balance[r] + credit, rounding)
         /\ \A w \in Wallets \ {s, r} : balance'[w] = balance[w]
C2_NoLostUpdate == [](C2_LedgerBalanced) /\ [][C2_CommitStep]_vars
\* A call that began before another send from the same wallet committed has
\* re-read the balance under the lock and is about to commit.
C2_Witness ==
  \E q \in Procs :
    /\ pc[q] = "insert"
    /\ Len(txs) = 1
    /\ txs[1].wallet = arg[q].s
    /\ passedBal[q] # sBal[q]

\* C3: a successful transfer from A to B debits A by exactly amount (+ charge
\* when the charge applies to the sender), credits B by exactly amount (- charge
\* when it applies to the receiver), credits the fee wallet by the charge, and
\* conserves A.balance + B.balance + feeWallet.balance.  The charge is the
\* charge_amount recorded on the call's Transaction row.
C3_Step ==
  \A p \in Procs :
    Commits(p) =>
      LET s == arg[p].s
          r == arg[p].r
          toSender == charge[p] # None /\ charge[p].applies_to = "SENDER"
          c == txs'[Len(txs')].charge_amount
      IN /\ balance'[s] = balance[s] - (IF toSender THEN arg[p].amount + c ELSE arg[p].amount)
         /\ balance'[r] = balance[r] + (IF toSender THEN arg[p].amount ELSE arg[p].amount - c)
         /\ feeBalance' = feeBalance + c
         /\ balance'[s] + balance'[r] + feeBalance' = balance[s] + balance[r] + feeBalance
C3_ExactAndConserved == [][C3_Step]_vars

Errors == {"same_wallet", "limit_exceeded", "insufficient_funds", "integrity_error",
           "receiver_error", "db_error"}

\* C4: all or nothing.  A call that ends with an error leaves every balance,
\* the fee wallet and the Transaction table as they were; balances change only
\* in a step that also inserts the call's Transaction row, and a row is
\* inserted only in a step that also changes the balances.
C4_Step ==
  /\ returned'.value \in Errors => UNCHANGED <<balance, feeBalance, txs>>
  /\ (balance' # balance \/ feeBalance' # feeBalance) =>
        /\ returned'.value \notin Errors
        /\ Len(txs') = Len(txs) + 1
  /\ txs' # txs =>
        /\ returned'.value \notin Errors
        /\ balance' # balance
C4_AllOrNothing == [][C4_Step]_vars
\* A call failed at the INSERT, after its balance updates were made in the block.
C4_Witness == returned.value = "integrity_error"

\* C5: the COMPLETED sends of a wallet in the trailing 24 hours never exceed
\* the daily limit of its owner's verification level.
C5_LimitRespected ==
  \A w \in Wallets : amount_sent_today(txs, w, now) <= daily_limit(w)

\* C6: no two calls ever each hold one wallet's row lock and wait for the
\* other's.
C6_NoLockCycle == ~(\E p, q \in Procs : Deadlocked(p, q))

\* C7: a call with sender_wallet.id = receiver_wallet.id returns the
\* same-wallet error at once: no lock is taken, no row is read, and balances,
\* the fee wallet and the Transaction table are unchanged.
C7_Step ==
  \A p \in Procs :
    pc[p] = "idle" =>
      \A w \in Senders, a \in Amounts, t \in CallTypes :
        Begin(p, w, w, a, t) =>
          /\ returned' = Return(p, "same_wallet")
          /\ pc'[p] = "idle"
          /\ UNCHANGED <<balance, feeBalance, txs, lockOwner, feeRead, sBal, rBal>>
C7_SameWalletRejected == [][C7_Step]_vars
\* A same-wallet call was rejected while another call holds a row lock.
C7_Witness ==
  /\ returned.value = "same_wallet"
  /\ \E w \in Wallets : lockOwner[w] # NoProc

\* C8: the funds check uses the sender balance that is current under the row
\* lock.  The call fails with the insufficient-funds error exactly when that
\* balance is below amount + charge_amount (charge applying to the sender) or
\* below amount (otherwise), and then nothing is written.
C8_Step ==
  \A p \in Procs :
    (pc[p] = "apply" /\ pc'[p] # "apply") =>
      LET required == IF charge[p] # None /\ charge[p].applies_to = "SENDER"
                      THEN arg[p].amount + chargeAmt[p] ELSE arg[p].amount
      IN /\ (returned' = Return(p, "insufficient_funds")) <=> (balance[arg[p].s] < required)
         /\ returned' = Return(p, "insufficient_funds") => UNCHANGED <<balance, feeBalance, txs>>
         /\ returned' # Return(p, "insufficient_funds") => pc'[p] = "insert"
C8_FundsCheckedUnderLock == [][C8_Step]_vars
\* The check is about to run where the wallet object handed to the call would
\* cover the required funds but the balance read under the lock does not.
C8_Witness ==
  \E p \in Procs :
    /\ pc[p] = "apply"
    /\ sBal[p] < RequiredFunds(p)
    /\ passedBal[p] >= RequiredFunds(p)

RECURSIVE SumOfAmounts(_, _)
SumOfAmounts(rows, idx) ==
  IF idx = {} THEN 0
  ELSE LET i == CHOOSE j \in idx : TRUE
       IN rows[i].amount + SumOfAmounts(rows, idx \ {i})

\* C9: with one request at a time, the call fails with the limit error exactly
\* when the amounts of the sender wallet's COMPLETED transactions of the last
\* 24 hours plus the requested amount are strictly above the limit of the
\* sender's verification level (0 for a level not in the table); on that
\* failure nothing is written.
C9_Step ==
  \A p \in Procs :
    (pc[p] = "limit" /\ pc'[p] # "limit") =>
      LET w == arg[p].s
          total == SumOfAmounts(txs, {i \in 1..Len(txs) :
                                       /\ txs[i].wallet = w
                                       /\ txs[i].status = "COMPLETED"
                                       /\ txs[i].timestamp >= now - DayTicks})
          limit == CASE verification_level[w] = 1 -> LimitLevel1 * Cent
                     [] verification_level[w] = 2 -> LimitLevel2 * Cent
                     [] OTHER -> 0
          refused == returned' = Return(p, "limit_exceeded")
      IN /\ refused <=> (total + arg[p].amount > limit)
         /\ refused => UNCHANGED <<balance, feeBalance, txs, lockOwner>>
         /\ ~refused => pc'[p] = "lock_sender"
C9_LimitCheck == [][C9_Step]_vars
\* A request whose total reaches the limit exactly, on top of earlier
\* COMPLETED sends, has passed the limit check.
C9_Witness ==
  \E p \in Procs :
    /\ pc[p] = "lock_sender"
    /\ amount_sent_today(txs, arg[p].s, now) > 0
    /\ amount_sent_today(txs, arg[p].s, now) + arg[p].amount = daily_limit(arg[p].s)

\* C10: no two Transaction rows share a transaction_reference, and every
\* row's reference is <prefix>-<8 hex digits> with the prefix of the row's
\* transaction_type (TRANSFER TR, WITHDRAWAL CO, PAYMENT MP, DEPOSIT DP,
\* COMMISSION CM).  The 8 hex digits are drawn from HexBodies.
C10_UniqueReferences ==
  /\ \A i, j \in 1..Len(txs) :
        i # j => txs[i].transaction_reference # txs[j].transaction_reference
  /\ \A i \in 1..Len(txs) :
        LET row == txs[i]
        IN /\ row.transaction_reference.prefix =
                (CASE row.transaction_type = "TRANSFER" -> "TR"
                   [] row.transaction_type = "WITHDRAWAL" -> "CO"
                   [] row.transaction_type = "PAYMENT" -> "MP"
                   [] row.transaction_type = "DEPOSIT" -> "DP"
                   [] row.transaction_type = "COMMISSION" -> "CM")
           /\ row.transaction_reference.body \in HexBodies
\* Two saves hold the same generated reference at the same time.
C10_Witness ==
  /\ \E p, q \in Procs :
       /\ p # q
       /\ pc[p] \in {"insert", "topup_insert"}
       /\ pc[q] \in {"insert", "topup_insert"}
       /\ ref[p] = ref[q]

\* What a step dispatched: the entries of sent other than the commit.
Count(events, e) == Cardinality({i \in 1..Len(events) : events[i] = e})
Committed(events) == Count(events, "commit") = 1

\* C11: the step that ends a create_transaction call dispatches the
\* transaction-completed event and the broadcast about the new row exactly
\* once each when the transfer committed, every one of them after the commit,
\* and dispatches nothing when the transfer did not commit.
C11_Step ==
  \A p \in Procs :
    (pc[p] = "insert" /\ pc'[p] = "idle") =>
      IF Committed(sent')
      THEN /\ Count(sent', "transaction_completed") = 1
           /\ Count(sent', "post_save") = 1
           /\ \A i \in 1..Len(sent') :
                 sent'[i] # "commit" => \E j \in 1..(i - 1) : sent'[j] = "commit"
      ELSE sent' = <<>>
C11_DispatchedOnceAfterCommit == [][C11_Step]_vars

\* C12: a transfer that committed returns its Transaction to the caller,
\* whatever the receivers of transaction_completed do, and what it committed
\* stays committed.
C12_Step ==
  \A p \in Procs :
    (pc[p] = "insert" /\ Committed(sent')) =>
      /\ returned' = Return(p, "ok")
      /\ Len(txs') = Len(txs) + 1
      /\ balance' = SavedBalances(p)
C12_CommittedTransferReturns == [][C12_Step]_vars


\* C13: every step that changes a wallet's balance is taken by a worker that
\* holds the wallet's row lock, having read the balance under it, and so every
\* balance is its initial balance plus the changes the committed writers made.
C13_Step ==
  \A w \in Wallets :
    balance'[w] # balance[w] =>
      \E p \in Procs : lockOwner[w] = p /\ pc[p] # "idle" /\ pc'[p] = "idle"
C13_BalanceWrittenUnderLock ==
  [](\A w \in Wallets : balance[w] = InitBalance[w] + ledger[w]) /\ [][C13_Step]_vars


\* C14: no step changes a field of a COMPLETED row; a FAILED row stays
\* FAILED; and no step changes the amount, wallet or related_wallet of a row.
C14_Step ==
  \A i \in 1..Len(txs) :
    /\ txs[i].status = "COMPLETED" => txs'[i] = txs[i]
    /\ txs[i].status = "FAILED" => txs'[i].status = "FAILED"
    /\ txs'[i].amount = txs[i].amount
    /\ txs'[i].wallet = txs[i].wallet
    /\ txs'[i].related_wallet = txs[i].related_wallet
C14_CompletedRowsImmutable == [][C14_Step]_vars


\* C15: a create_transaction call whose amount is zero or negative takes no
\* lock, changes no balance, creates no Transaction row and ends in an error.
C15_Step ==
  \A p \in Procs :
    (pc[p] # "idle" /\ arg[p].amount <= 0) =>
      /\ lockOwner' = lockOwner
      /\ balance' = balance
      /\ txs' = txs
      /\ pc'[p] = "idle" => returned'.value \in Errors
C15_NonPositiveAmountRejected == [][C15_Step]_vars


RECURSIVE SumOfCharges(_)
SumOfCharges(rows) ==
  IF rows = <<>> THEN 0 ELSE Head(rows).charge_amount + SumOfCharges(Tail(rows))

\* C16: the Fee Wallet's balance is its initial balance, zero, plus the
\* charge_amount of every committed Transaction row: each charge is credited
\* once and no concurrent call's credit is lost.
C16_FeeWalletAccumulates == feeBalance = SumOfCharges(txs)


\* What the CREDITED referrals of ids give wallet w.
RECURSIVE BonusesCredited(_, _)
BonusesCredited(ids, w) ==
  IF ids = {} THEN 0
  ELSE LET id == CHOOSE i \in ids : TRUE
           r == referral[id]
       IN (IF r.bonus_status = "CREDITED" /\ r.referrer = w THEN r.referrer_bonus ELSE 0)
          + (IF r.bonus_status = "CREDITED" /\ r.referred = w THEN r.referred_bonus ELSE 0)
          + BonusesCredited(ids \ {id}, w)

\* C17: credit_referral_bonuses is idempotent per referral.  Whatever calls
\* ran, one after the other or together, every wallet holds its initial
\* balance plus the bonuses of the CREDITED referrals, each once; and a call on
\* a CREDITED referral returns it, changing no balance and creating no row.
C17_Step ==
  \A p \in Procs, id \in ReferralIds :
    (referral[id].bonus_status = "CREDITED" /\ ReferralGet(p, id)) =>
      /\ returned' = Return(p, "already_credited")
      /\ balance' = balance
      /\ txs' = txs
      /\ referral' = referral
C17_CreditedOnce ==
  /\ [](\A w \in Wallets : balance[w] = InitBalance[w] + BonusesCredited(ReferralIds, w))
  /\ [][C17_Step]_vars
C17_Witness ==
  /\ returned.value = "already_credited"
  /\ referral[1].bonus_status = "CREDITED"
  /\ \E p \in Procs : pc[p] = "credit"

\* The rows of rows after the first n that record a bonus of amount for wallet w.
BonusRowsSince(rows, n, w, amount) ==
  {i \in (n + 1)..Len(rows) :
     /\ rows[i].wallet = w
     /\ rows[i].amount = amount
     /\ rows[i].transaction_type = "COMMISSION"
     /\ rows[i].status = "COMPLETED"}

\* C18: a successful credit of a PENDING referral adds each bonus to its
\* wallet, creates one COMPLETED COMMISSION row per positive bonus and marks the
\* referral CREDITED with credited_at set, in one step; and no other step of
\* the function changes a balance, the Transaction table or a referral.
C18_Step ==
  /\ \A p \in Procs :
       (pc[p] = "credit" /\ returned' = Return(p, "credited")) =>
         LET id == LockedReferral(p)
             r == referral[id]
         IN /\ r.bonus_status = "PENDING"
            /\ balance' = [w \in Wallets |->
                             balance[w]
                             + (IF w = r.referrer THEN r.referrer_bonus ELSE 0)
                             + (IF w = r.referred THEN r.referred_bonus ELSE 0)]
            /\ Len(txs') = Len(txs) + RowsOf(id)
            /\ SubSeq(txs', 1, Len(txs)) = txs
            /\ r.referrer_bonus > 0 =>
                 Cardinality(BonusRowsSince(txs', Len(txs), r.referrer, r.referrer_bonus)) = 1
            /\ r.referred_bonus > 0 =>
                 Cardinality(BonusRowsSince(txs', Len(txs), r.referred, r.referred_bonus)) = 1
            /\ referral' = [referral EXCEPT ![id].bonus_status = "CREDITED",
                                             ![id].credited_at = now]
            /\ now # NotCredited
  /\ (balance' # balance \/ txs' # txs \/ referral' # referral) =>
       \E p \in Procs : pc[p] = "credit" /\ returned' = Return(p, "credited")
C18_CreditIsComplete == [][C18_Step]_vars
C18_Witness ==
  /\ returned.value = "credited"
  /\ referral[1].bonus_status = "CREDITED"
  /\ referral[1].credited_at = now
  /\ Len(txs) = 2

\* The referrals credit_referral_bonuses must refuse.
Refused(id) ==
  \/ id \notin ReferralIds
  \/ referral[id].bonus_status = "EXPIRED"
  \/ referral[id].referrer \notin Wallets
  \/ referral[id].referred \notin Wallets

\* C19: a call on an unknown id, on an EXPIRED referral or on a referral one
\* of whose users has no wallet ends with ReferralBonusError, and no step of it
\* changes a balance, the Transaction table or the referral.
C19_Step ==
  /\ \A p \in Procs, id \in CalledIds :
       (Refused(id) /\ ReferralGet(p, id)) =>
         /\ pc'[p] = "idle" => returned' = Return(p, "referral_error")
         /\ pc'[p] = "idle" <=> (id \notin ReferralIds \/ referral[id].bonus_status = "EXPIRED")
         /\ UNCHANGED <<balance, txs, referral>>
  /\ \A p \in Procs :
       (/\ pc[p] \in {"referrer_wallet", "referred_wallet", "credit"}
        /\ Refused(LockedReferral(p))
        /\ pc'[p] # pc[p]) =>
         /\ pc'[p] # "credit"
         /\ pc'[p] = "idle" => returned' = Return(p, "referral_error")
         /\ UNCHANGED <<balance, txs, referral>>
C19_RefusedWithoutEffect ==
  /\ [](\A id \in ReferralIds : Refused(id) => referral[id] = InitReferral[id])
  /\ [][C19_Step]_vars
C19_Witness ==
  /\ returned.value = "referral_error"
  /\ referral[2].bonus_status = "CREDITED"
  /\ \E p \in Procs : pc[p] = "referred_wallet" /\ Refused(LockedReferral(p))


\* C20: at most one WhatsAppConfig row is active, whatever saves ran and
\* however they interleaved; and saving a config as active while another row
\* is active fails and leaves the rows as they were.
C20_Step ==
  \A p \in Procs, pk \in 0..MaxConfigs :
    (OtherActive(pk) /\ ConfigClean(p, pk, TRUE)) =>
      /\ returned' = Return(p, "validation_error")
      /\ configs' = configs
C20_OneActiveConfig ==
  /\ [](Cardinality({i \in 1..Len(configs) : configs[i]}) <= 1)
  /\ [][C20_Step]_vars


\* C21: in every create_transaction call the wallet with the smaller id is
\* locked first: a step that locks the larger of the call's two wallets is
\* taken by a worker that already holds the smaller one.
C21_Step ==
  \A p \in Procs :
    pc[p] \in {"lock_sender", "lock_receiver"} =>
      \A w \in Wallets :
        (lockOwner[w] # p /\ lockOwner'[w] = p /\ w = Max(arg[p].s, arg[p].r)) =>
          lockOwner[Min(arg[p].s, arg[p].r)] = p
C21_AscendingLockOrder == [][C21_Step]_vars


\* The reference function of the charge: no active rule named after the type
\* and the sender's role gives 0; otherwise value/100 * amount or value, at
\* most max_charge when that is set, and at least min_charge.
ReferenceOfRule(rule, amount) ==
  LET raw == IF rule.charge_type = "PERCENTAGE" THEN (rule.value * amount) \div 100
             ELSE rule.value
      capped == IF rule.max_charge # -1 /\ raw > rule.max_charge THEN rule.max_charge ELSE raw
  IN IF capped < rule.min_charge THEN rule.min_charge ELSE capped

ReferenceCharge(transaction_type, user_role, amount) ==
  LET named == {c \in TransactionChargeRows :
                  c.name = ChargeName(transaction_type, user_role) /\ c.is_active}
  IN IF named = {} THEN 0
     ELSE ReferenceOfRule(CHOOSE c \in named : TRUE, amount)

\* Rules beyond the stored ones: every kind, with and without each clamp.
RuleSpace ==
  [name : {"rule"}, charge_type : {"PERCENTAGE", "FIXED"}, value : {0, 50, 100},
   applies_to : {"SENDER"}, min_charge : {0, 1 * Cent},
   max_charge : {-1, 1 * Cent, 2 * Cent}, is_active : {TRUE}]

\* C22: the charge_amount a call computes is the reference function of its
\* type, its sender's role and its amount; and calculate_charge agrees with the
\* reference on every rule, its result lying within [min_charge, max_charge]
\* whenever max_charge is set and min_charge <= max_charge.
C22_Step ==
  \A p \in Procs :
    (pc[p] = "limit" /\ pc'[p] = "lock_sender") =>
      /\ chargeAmt'[p] = ReferenceCharge(arg[p].type, role[arg[p].s], arg[p].amount)
      /\ charge'[p] = None => chargeAmt'[p] = 0
      /\ (charge'[p] # None /\ charge'[p].max_charge # -1
           /\ charge'[p].min_charge <= charge'[p].max_charge) =>
            /\ chargeAmt'[p] >= charge'[p].min_charge
            /\ chargeAmt'[p] <= charge'[p].max_charge
C22_ChargeIsReference ==
  /\ [](\A rule \in RuleSpace, a \in ChargeAmounts :
          /\ calculate_charge(rule, a) = ReferenceOfRule(rule, a)
          /\ (rule.max_charge # -1 /\ rule.min_charge <= rule.max_charge) =>
                /\ calculate_charge(rule, a) >= rule.min_charge
                /\ calculate_charge(rule, a) <= rule.max_charge)
  /\ [][C22_Step]_vars
\* A transfer of 0.03 by a customer: 50% is 0.015, capped at max_charge 0.01.
C22_Witness ==
  /\ pc[1] = "lock_sender"
  /\ arg[1].type = "TRANSFER" /\ arg[1].amount = 3 * Cent /\ role[arg[1].s] = "CUSTOMER"
  /\ charge[1].name = "transfer_customer"
  /\ chargeAmt[1] = charge[1].max_charge


\* C23: what counts against a wallet's daily limit is what the wallet sent:
\* the amounts of its COMPLETED transfers of the last 24 hours.  A call is
\* refused with the limit error exactly when those plus the requested amount
\* are above the limit; rows that only credit the wallet (top-ups, bonuses)
\* count for nothing.
C23_Step ==
  \A p \in Procs :
    (pc[p] = "limit" /\ pc'[p] # "limit") =>
      LET w == arg[p].s
          sends == SumOfAmounts(txs, {i \in 1..Len(txs) :
                                       /\ txs[i].wallet = w
                                       /\ txs[i].related_wallet \in Wallets
                                       /\ txs[i].status = "COMPLETED"
                                       /\ txs[i].timestamp >= now - DayTicks})
      IN (returned' = Return(p, "limit_exceeded")) <=> (sends + arg[p].amount > daily_limit(w))
C23_OnlySendsCount == [][C23_Step]_vars


\* C24: a successful create_transaction call adds exactly one row, in the step
\* that changes the balances: COMPLETED, wallet the sender, related_wallet the
\* receiver, amount the requested amount, charge_amount the computed charge and
\* charge the resolved rule; and no other step of the engine adds a row.
C24_Step ==
  /\ \A p \in Procs :
       Commits(p) =>
         /\ Len(txs') = Len(txs) + 1
         /\ SubSeq(txs', 1, Len(txs)) = txs
         /\ balance' # balance
         /\ LET row == txs'[Len(txs')]
            IN /\ row.status = "COMPLETED"
               /\ row.wallet = arg[p].s
               /\ row.related_wallet = arg[p].r
               /\ row.amount = arg[p].amount
               /\ row.transaction_type = arg[p].type
               /\ row.charge = charge[p].name
               /\ row.charge_amount = chargeAmt[p]
  /\ txs' # txs => \E p \in Procs : Commits(p)
C24_OneRowPerSuccess == [][C24_Step]_vars


\* C25: a row's sender_identifier and receiver_identifier are the phone
\* numbers its parties have when the row is first written, and no later step
\* changes them, whatever happens to the parties' phone numbers.
C25_Step ==
  /\ \A i \in 1..Len(txs) :
       /\ txs'[i].sender_identifier = txs[i].sender_identifier
       /\ txs'[i].receiver_identifier = txs[i].receiver_identifier
  /\ \A i \in (Len(txs) + 1)..Len(txs') :
       /\ txs'[i].sender_identifier = phone[txs'[i].wallet]
       /\ txs'[i].related_wallet \in Wallets =>
            txs'[i].receiver_identifier = phone[txs'[i].related_wallet]
C25_IdentifiersFrozen == [][C25_Step]_vars


\* C26: the reference loop of a save regenerates at most max_attempts times
\* and ends with a taken reference only then; a save that ends so fails with
\* the integrity error, which is none of the business errors, stores no row
\* and leaves the enclosing transfer uncommitted; no two rows share a reference.
C26_Step ==
  \A p \in Procs :
    (pc[p] \in {"insert", "topup_insert"} /\ ReferenceExists(txs, ref[p])) =>
      /\ returned' = Return(p, "integrity_error")
      /\ returned'.value \notin {"same_wallet", "limit_exceeded", "insufficient_funds"}
      /\ UNCHANGED <<balance, feeBalance, txs>>
C26_BoundedRegeneration ==
  /\ [](\A t \in RefTypes :
          /\ \A x \in SaveOutcomes(txs, t) :
                /\ x.attempts <= max_attempts
                /\ ReferenceExists(txs, x.reference) => x.attempts = max_attempts
          /\ {x.reference : x \in SaveOutcomes(txs, t)} = SaveReferences(txs, t))
  /\ [](\A i, j \in 1..Len(txs) :
          i # j => txs[i].transaction_reference # txs[j].transaction_reference)
  /\ [][C26_Step]_vars
\* A payout reversal whose every generated reference was taken by the top-up
\* row is about to be inserted.
C26_Witness ==
  /\ pc[1] = "insert"
  /\ arg[1].type = "DEPOSIT"
  /\ ReferenceExists(txs, ref[1])


\* The largest amount among the rows wallet w sent in the last 24 hours.
LargestSend(w) ==
  LET sends == {i \in 1..Len(txs) : CountedToday(txs[i], w, now - DayTicks)}
  IN IF sends = {} THEN 0
     ELSE LET i == CHOOSE j \in sends : \A k \in sends : txs[j].amount >= txs[k].amount
          IN txs[i].amount

\* C27: however many calls from one wallet run together, the wallet's
\* COMPLETED sends of the last 24 hours exceed its limit by no more than the
\* amount of one transaction.
C27_SlackIsOneTransfer ==
  \A w \in Wallets :
    amount_sent_today(txs, w, now) <= daily_limit(w) + LargestSend(w)


\* C28: when the payout fails after the debit, the attempt ends with the
\* user's balance back at its value before the withdrawal; and when the task
\* has finished, the user's net debit is the amount if a payout was made and
\* zero otherwise.
C28_Step ==
  \A p \in Procs :
    (task[p].stage = "revert" /\ task'[p].stage # "revert") =>
      balance'[task[p].user] = task[p].start
C28_FundsReturned ==
  /\ [](\A p \in Procs :
          task[p].stage = "done" =>
            balance[task[p].user] =
              task[p].start - (IF task[p].paid THEN task[p].amount ELSE 0))
  /\ [][C28_Step]_vars


\* C29: a Paynow top-up row credits its wallet at most once, by its amount:
\* every wallet's balance is at most its initial balance plus the amounts of
\* its top-up rows that are no longer PENDING.
RECURSIVE SettledTopUps(_, _)
SettledTopUps(w, n) ==
  IF n = 0 THEN 0
  ELSE SettledTopUps(w, n - 1)
       + (IF txs[n].wallet = w /\ txs[n].status # "PENDING" THEN txs[n].amount ELSE 0)
C29_ToppedUpOnce ==
  \A w \in Wallets : balance[w] <= InitBalance[w] + SettledTopUps(w, Len(txs))


\* C30: a PENDING merchant payment request leads to at most one completed
\* PAYMENT transfer: there are never more COMPLETED PAYMENT rows than payment
\* requests, and a successful approval leaves the request row FAILED.
PaymentRows(completed) ==
  {i \in 1..Len(txs) : /\ txs[i].transaction_type = "PAYMENT"
                       /\ (txs[i].status = "COMPLETED") = completed}
C30_Step ==
  \A p \in DOMAIN pc :
    (task[p].stage = "approve" /\ returned'.value = "approved" /\ returned'.p = p) =>
      txs'[task[p].id].status = "FAILED"
====
